---- MODULE Spec2Model ----
(***************************************************************************)
(* A model of the minilibx wrapper (mlx/src/lib.rs, mlx/src/ffi.rs): the   *)
(* binding layer that turns null returns of the native library into error  *)
(* values, the facade handles (Mlx, MlxWindow, MlxImage) a client holds,   *)
(* and the closure based hook registration.  The native library is played  *)
(* by a mock whose answers (null or a pointer) are chosen freely.          *)
(***************************************************************************)
EXTENDS Integers, Sequences, FiniteSets, TLC

\* ------------------------------------------------------------------ bounds
MaxLen == 2          \* longest caller supplied text, in bytes
MaxWrites == 2       \* write_to calls in one run
MaxBoxes == 2        \* hook registrations in one run
MaxEvents == 2       \* events the native layer enqueues in one run
MaxDemoEvents == 3   \* key presses and loop ticks in one run of the demo

\* ------------------------------------------------------------ value sets
NULL == 0
MlxAddrs == {1, 2}           \* addresses mlx_init can return
WinAddrs == {1, 2}           \* addresses mlx_new_window can return
ImgAddrs == {1}              \* addresses mlx_new_image / xpm decoders can return
TextBytes == {0, 65}         \* the NUL byte and one other byte
Dims == {0, 1, 2}            \* widths and heights a caller asks for
WinSizes == {<<2, 1>>}       \* window sizes a caller asks for
XpmSizes == {<<1, 2>>}       \* sizes the xpm decoders report
\* <<bits per pixel, endian flag>> pairs the native layer reports
NativeFormats == {<<8, 0>>, <<16, 1>>, <<8, 2>>}
ByteVals == {127, 128, 255}  \* u8 values a caller writes
Offsets == {-1, 0, 1}        \* offsets a caller passes to write_to
MouseVals == {<<1, 10, 20>>} \* (buttons, x, y) of mouse events
KeyCodes == {13}             \* keycodes of key events
XEvents == {17}              \* x_event numbers a caller passes to hook
XMasks == {0}                \* x_mask values a caller passes to hook

RECURSIVE SeqsUpTo(_, _)
SeqsUpTo(S, n) ==
    IF n = 0 THEN {<<>>}
    ELSE LET shorter == SeqsUpTo(S, n - 1)
         IN  shorter \cup {Append(s, x) : s \in shorter, x \in S}

Texts == SeqsUpTo(TextBytes, MaxLen)

Zeros(n) == [i \in 1..n |-> 0]

\* ------------------------------------------------------- Result<T, MlxError>
NoErr == [kind |-> "none", msg |-> <<>>]
Ok(v) == [ok |-> TRUE, err |-> NoErr, val |-> v]
Err(e) == [ok |-> FALSE, err |-> e, val |-> NULL]

\* enum MlxError { Init, Window, Any(String) }; a message is the pieces
\* format! puts together, in order.
MlxErrorInit == [kind |-> "Init", msg |-> <<>>]
MlxErrorWindow == [kind |-> "Window", msg |-> <<>>]
MlxErrorAny(m) == [kind |-> "Any", msg |-> m]

\* One native call as the mock sees it: the entry point, the C string it was
\* handed (<<>> when it takes none), the pointer it returned, its out-params.
Call(fn, str, ret, out) == [fn |-> fn, str |-> str, ret |-> ret, out |-> out]

\* What a binding or facade function did: its result and its native calls.
Done(r, calls) == [r |-> r, calls |-> calls]

\* ------------------------------------------------------------- ffi.rs
HasNul(s) == \E i \in 1..Len(s) : s[i] = 0

\* create_c_str without the NUL check (CString::from_vec_unchecked).
create_c_str_unchecked(s) == Ok(Append(s, 0))

\* CString::new(s): refuses an interior NUL, otherwise appends the terminator.
create_c_str(s) ==
    IF HasNul(s) THEN Err(MlxErrorAny(<<"Error creating string ", s>>))
    ELSE Ok(Append(s, 0))

\* init without the is_null test.
ffi_init_unchecked(ptr) ==
    Done(Ok(ptr), <<Call("mlx_init", <<>>, ptr, <<>>)>>)

ffi_init(ptr) ==
    Done(IF ptr = NULL THEN Err(MlxErrorInit) ELSE Ok(ptr),
         <<Call("mlx_init", <<>>, ptr, <<>>)>>)

\* new_window without the is_null test.
ffi_new_window_unchecked(mlx_ptr, size_x, size_y, title, ptr) ==
    LET t == create_c_str(title)
    IN  IF ~t.ok THEN Done(Err(t.err), <<>>)
        ELSE Done(Ok(ptr), <<Call("mlx_new_window", t.val, ptr, <<>>)>>)

ffi_new_window(mlx_ptr, size_x, size_y, title, ptr) ==
    LET t == create_c_str(title)
    IN  IF ~t.ok THEN Done(Err(t.err), <<>>)
        ELSE Done(IF ptr = NULL THEN Err(MlxErrorWindow) ELSE Ok(ptr),
                  <<Call("mlx_new_window", t.val, ptr, <<>>)>>)

ffi_clear_window(mlx_ptr, win_ptr) ==
    Done(Ok(NULL), <<Call("mlx_clear_window", <<>>, win_ptr, <<>>)>>)

ffi_destroy_window(mlx_ptr, win_ptr) ==
    Done(Ok(NULL), <<Call("mlx_destroy_window", <<>>, win_ptr, <<>>)>>)

ffi_pixel_put(mlx_ptr, win_ptr, x, y, color) ==
    Done(Ok(NULL), <<Call("mlx_pixel_put", <<>>, win_ptr, <<x, y, color>>)>>)

ffi_string_put(mlx_ptr, win_ptr, x, y, color, s) ==
    LET c == create_c_str(s)
    IN  IF ~c.ok THEN Done(Err(c.err), <<>>)
        ELSE Done(Ok(NULL), <<Call("mlx_string_put", c.val, win_ptr, <<x, y, color>>)>>)

ffi_new_image(mlx_ptr, width, height, ptr) ==
    Done(IF ptr = NULL THEN Err(MlxErrorAny(<<"Error creating image with ", width, " width, ", height, " height.">>))
         ELSE Ok(ptr),
         <<Call("mlx_new_image", <<>>, ptr, <<width, height>>)>>)

\* XpmImage { ptr, width, height }: width and height are the decoder's out-params.
XpmImage(ptr, width, height) == [ptr |-> ptr, width |-> width, height |-> height]

ffi_xpm_to_image(mlx_ptr, ptr, width, height) ==
    Done(IF ptr = NULL THEN Err(MlxErrorAny(<<"Error creating xpm image.">>))
         ELSE Ok(XpmImage(ptr, width, height)),
         <<Call("mlx_xpm_to_image", <<>>, ptr, <<width, height>>)>>)

ffi_xpm_file_to_image(mlx_ptr, filename, ptr, width, height) ==
    LET f == create_c_str(filename)
    IN  IF ~f.ok THEN Done(Err(f.err), <<>>)
        ELSE Done(IF ptr = NULL THEN Err(MlxErrorAny(<<"Error creating xpm image.">>))
                  ELSE Ok(XpmImage(ptr, width, height)),
                  <<Call("mlx_xpm_file_to_image", f.val, ptr, <<width, height>>)>>)

ffi_destroy_image(mlx_ptr, img_ptr) ==
    Done(Ok(NULL), <<Call("mlx_destroy_image", <<>>, img_ptr, <<>>)>>)

\* AddrData { area, bits_per_pixel, size_line, endian }
AddrData(area, bpp, sl, endian) ==
    [area |-> area, bits_per_pixel |-> bpp, size_line |-> sl, endian |-> endian]

\* get_data_addr without the is_null test.
get_data_addr_unchecked(img_ptr, q) ==
    Done(Ok(AddrData(q.area, q.bits_per_pixel, q.size_line, q.endian)),
         <<Call("mlx_get_data_addr", <<>>, q.area,
                <<q.bits_per_pixel, q.size_line, q.endian>>)>>)

\* q is the native answer: the buffer address and the three out-params.
get_data_addr(img_ptr, q) ==
    Done(IF q.area = NULL THEN Err(MlxErrorAny(<<"Error when trying to access image data">>))
         ELSE Ok(AddrData(q.area, q.bits_per_pixel, q.size_line, q.endian)),
         <<Call("mlx_get_data_addr", <<>>, q.area,
                <<q.bits_per_pixel, q.size_line, q.endian>>)>>)

ffi_put_image_to_window(mlx_ptr, win_ptr, img_ptr, x, y) ==
    Done(Ok(NULL), <<Call("mlx_put_image_to_window", <<>>, win_ptr, <<img_ptr, x, y>>)>>)

\* ------------------------------------------------------------- lib.rs
\* struct Mlx { mlx_ptr }, struct MlxWindow { win_ptr }
Mlx(p) == [mlx_ptr |-> p]
MlxWindow(p) == [win_ptr |-> p]

\* A test for a non-zero flag in place of the test for 1.
Endian_nonzero(flag) == IF flag # 0 THEN "Big" ELSE "Little"

\* enum Endian { Little = 0, Big = 1 }
Endian(flag) == IF flag = 1 THEN "Big" ELSE "Little"

\* MlxImage::new that destroys the native image when the buffer query fails.
MlxImage_new_releasing(img_ptr, width, height, q) ==
    LET d == get_data_addr(img_ptr, q)
    IN  IF ~d.r.ok
        THEN Done(Err(d.r.err),
                  d.calls \o <<Call("mlx_destroy_image", <<>>, img_ptr, <<>>)>>)
        ELSE Done(Ok([img_ptr |-> img_ptr,
                      width |-> width,
                      height |-> height,
                      area_start |-> d.r.val.area,
                      bits_per_pixel |-> d.r.val.bits_per_pixel,
                      size_line |-> d.r.val.size_line,
                      endian |-> Endian(d.r.val.endian)]),
                  d.calls)

\* MlxImage::new with width and height taken in the wrong order.
MlxImage_new_swapped(img_ptr, width, height, q) ==
    LET d == get_data_addr(img_ptr, q)
    IN  IF ~d.r.ok THEN Done(Err(d.r.err), d.calls)
        ELSE Done(Ok([img_ptr |-> img_ptr,
                      width |-> height,
                      height |-> width,
                      area_start |-> d.r.val.area,
                      bits_per_pixel |-> d.r.val.bits_per_pixel,
                      size_line |-> d.r.val.size_line,
                      endian |-> Endian(d.r.val.endian)]),
                  d.calls)

\* MlxImage::new
MlxImage_new(img_ptr, width, height, q) ==
    LET d == get_data_addr(img_ptr, q)
    IN  IF ~d.r.ok THEN Done(Err(d.r.err), d.calls)
        ELSE Done(Ok([img_ptr |-> img_ptr,
                      width |-> width,
                      height |-> height,
                      area_start |-> d.r.val.area,
                      bits_per_pixel |-> d.r.val.bits_per_pixel,
                      size_line |-> d.r.val.size_line,
                      endian |-> Endian(d.r.val.endian)]),
                  d.calls)

Mlx_new(ptr) ==
    LET i == ffi_init(ptr)
    IN  IF ~i.r.ok THEN Done(Err(i.r.err), i.calls)
        ELSE Done(Ok(Mlx(i.r.val)), i.calls)

Mlx_new_window(self, size_x, size_y, title, ptr) ==
    LET w == ffi_new_window(self.mlx_ptr, size_x, size_y, title, ptr)
    IN  IF ~w.r.ok THEN Done(Err(w.r.err), w.calls)
        ELSE Done(Ok(MlxWindow(w.r.val)), w.calls)

Mlx_clear_window(self, window) == ffi_clear_window(self.mlx_ptr, window.win_ptr)

Mlx_destroy_window(self, window) == ffi_destroy_window(self.mlx_ptr, window.win_ptr)

Mlx_destroy_image(self, image) == ffi_destroy_image(self.mlx_ptr, image.img_ptr)

Mlx_pixel_put(self, window, x, y, color) ==
    ffi_pixel_put(self.mlx_ptr, window.win_ptr, x, y, color)

Mlx_string_put(self, window, x, y, color, s) ==
    ffi_string_put(self.mlx_ptr, window.win_ptr, x, y, color, s)

Mlx_new_image(self, width, height, ptr, q) ==
    LET p == ffi_new_image(self.mlx_ptr, width, height, ptr)
    IN  IF ~p.r.ok THEN Done(Err(p.r.err), p.calls)
        ELSE LET image == MlxImage_new(p.r.val, width, height, q)
             IN  Done(image.r, p.calls \o image.calls)

Mlx_xpm_to_image(self, ptr, width, height, q) ==
    LET data == ffi_xpm_to_image(self.mlx_ptr, ptr, width, height)
    IN  IF ~data.r.ok THEN Done(Err(data.r.err), data.calls)
        ELSE LET image == MlxImage_new(data.r.val.ptr, data.r.val.width,
                                       data.r.val.height, q)
             IN  Done(image.r, data.calls \o image.calls)

Mlx_xpm_file_to_image(self, filename, ptr, width, height, q) ==
    LET data == ffi_xpm_file_to_image(self.mlx_ptr, filename, ptr, width, height)
    IN  IF ~data.r.ok THEN Done(Err(data.r.err), data.calls)
        ELSE LET image == MlxImage_new(data.r.val.ptr, data.r.val.width,
                                       data.r.val.height, q)
             IN  Done(image.r, data.calls \o image.calls)

Mlx_put_image_to_window(self, window, image, x, y) ==
    ffi_put_image_to_window(self.mlx_ptr, window.win_ptr, image.img_ptr, x, y)

\* drop(window) / drop(image) in destroy_window / destroy_image: the argument
\* is a shared reference to a Copy value, so dropping it releases nothing and
\* the handles the caller holds stay as they are.
drop_ref(held, handle) == held

\* A saturating conversion in place of the bit preserving cast.
u8_as_i8_saturating(value) == IF value >= 128 THEN 127 ELSE value

\* value as i8: the two's complement reading of the same eight bits.
u8_as_i8(value) == IF value >= 128 THEN value - 256 ELSE value

\* The same eight bits read back as u8.
i8_as_u8(b) == (b + 256) % 256

\* MlxImage::write_to on the buffer the handle's area_start points at.
write_to(data, offset, value) == [data EXCEPT ![offset + 1] = u8_as_i8(value)]

\* ------------------------------------------------ hooks (ffi.rs, lib.rs)
\* The closures MlxWindow::mouse_hook, key_hook, expose_hook, loop_hook and
\* hook hand to the binding layer: each captures the user's callback and the
\* args reference, and calls cb(<event values>, args).
HookClosure(kind, args) == [kind |-> kind, args |-> args]

\* One run of a user callback: which closure ran, with what values and args.
Invocation(closure, data, vals) ==
    [kind |-> closure.kind, box |-> data, vals |-> vals, args |-> closure.args]

\* Box::into_raw(Box::new(cb)): a fresh heap cell that nothing ever frees.
NewBoxAddr(heap) == Cardinality(DOMAIN heap) + 1
\* A box that is released as soon as its address has been taken.
Box_dropped(heap, cb) == [heap |-> heap, ptr |-> NewBoxAddr(heap)]

Box_into_raw(heap, cb) ==
    [heap |-> (NewBoxAddr(heap) :> cb) @@ heap, ptr |-> NewBoxAddr(heap)]

\* A registration as the native layer receives it.
HookCall(fn, win_ptr, x_event, x_mask, func, param) ==
    [fn |-> fn, win |-> win_ptr, x_event |-> x_event, x_mask |-> x_mask,
     func |-> func, param |-> param]

ffi_mouse_hook(heap, win_ptr, cb) ==
    LET callback == Box_into_raw(heap, cb)
    IN  [heap |-> callback.heap,
         call |-> HookCall("mlx_mouse_hook", win_ptr, 0, 0, "mouse", callback.ptr)]

ffi_key_hook(heap, win_ptr, cb) ==
    LET callback == Box_into_raw(heap, cb)
    IN  [heap |-> callback.heap,
         call |-> HookCall("mlx_key_hook", win_ptr, 0, 0, "key", callback.ptr)]

ffi_expose_hook(heap, win_ptr, cb) ==
    LET callback == Box_into_raw(heap, cb)
    IN  [heap |-> callback.heap,
         call |-> HookCall("mlx_expose_hook", win_ptr, 0, 0, "expose", callback.ptr)]

ffi_loop_hook(heap, win_ptr, cb) ==
    LET callback == Box_into_raw(heap, cb)
    IN  [heap |-> callback.heap,
         call |-> HookCall("mlx_loop_hook", win_ptr, 0, 0, "loop", callback.ptr)]

ffi_hook(heap, win_ptr, x_event, x_mask, cb) ==
    LET callback == Box_into_raw(heap, cb)
    IN  [heap |-> callback.heap,
         call |-> HookCall("mlx_hook", win_ptr, x_event, x_mask, "hook", callback.ptr)]

MlxWindow_mouse_hook(self, heap, args) ==
    ffi_mouse_hook(heap, self.win_ptr, HookClosure("mouse", args))

MlxWindow_key_hook(self, heap, args) ==
    ffi_key_hook(heap, self.win_ptr, HookClosure("key", args))

MlxWindow_expose_hook(self, heap, args) ==
    ffi_expose_hook(heap, self.win_ptr, HookClosure("expose", args))

MlxWindow_loop_hook(self, heap, args) ==
    ffi_loop_hook(heap, self.win_ptr, HookClosure("loop", args))

MlxWindow_hook(self, heap, x_event, x_mask, args) ==
    ffi_hook(heap, self.win_ptr, x_event, x_mask, HookClosure("hook", args))

\* The extern "C" call_closure trampolines: each turns the context pointer
\* back into the closure and calls it once with the values it was given.
\* The result is the user callbacks that ran, in order.
\* A trampoline that hands x and y over in the wrong order.
mouse_call_closure_swapped(heap, buttons, x, y, data) ==
    <<Invocation(heap[data], data, <<buttons, y, x>>)>>

\* A trampoline that calls the closure twice.
key_call_closure_twice(heap, keycode, data) ==
    <<Invocation(heap[data], data, <<keycode>>),
      Invocation(heap[data], data, <<keycode>>)>>

mouse_call_closure(heap, buttons, x, y, data) ==
    <<Invocation(heap[data], data, <<buttons, x, y>>)>>

key_call_closure(heap, keycode, data) ==
    <<Invocation(heap[data], data, <<keycode>>)>>

expose_call_closure(heap, data) == <<Invocation(heap[data], data, <<>>)>>

loop_call_closure(heap, data) == <<Invocation(heap[data], data, <<>>)>>

hook_call_closure(heap, data) == <<Invocation(heap[data], data, <<>>)>>

\* A trampoline calls the closure directly: the callback runs on the thread
\* that called the trampoline, which gets control back when it returns.
call_closure_on_worker(caller) == "worker"

call_closure_thread(caller) == caller

\* ffi::event_loop and Mlx::event_loop: the calling thread enters mlx_loop
\* and stays in the call for as long as mlx_loop runs.
ffi_event_loop(mlx_ptr, thread) ==
    [call |-> Call("mlx_loop", <<>>, mlx_ptr, <<>>), thread |-> thread]

Mlx_event_loop(self, thread) == ffi_event_loop(self.mlx_ptr, thread)

\* ------------------------------------------------------------- state
VARIABLES
    mlxs,        \* the Mlx handle the client holds (at most one)
    windows,     \* the MlxWindow handles the client holds
    images,      \* the MlxImage handle the client holds (at most one)
    nativeMlx,   \* native side: live displays
    nativeWins,  \* native side: live windows
    nativeImgs,  \* native side: live images, address -> attributes and buffer
    last,        \* the wrapper call that ran last: inputs, result, native calls
    crashed,     \* the process died on an undefined native access
    nWrites,     \* write_to calls so far
    boxes,       \* heap: live boxed closures, address -> closure
    registry,    \* native side: <<pointer, hook kind>> -> context pointer
    queue,       \* native side: events waiting for dispatch
    enq,         \* every event the native layer enqueued, in order
    delivered,   \* every event the native loop took off the queue, in order
    fired,       \* every user callback invocation, in order
    looping,     \* the thread inside Mlx::event_loop (NoThread: none)
    running      \* the user callbacks that have begun and not yet returned

vars == <<mlxs, windows, images, nativeMlx, nativeWins, nativeImgs, last,
          crashed, nWrites, boxes, registry, queue, enq, delivered, fired, looping,
          running>>

resourceVars == <<mlxs, windows, images, nativeMlx, nativeWins, nativeImgs>>
hookVars == <<boxes, registry, queue, enq, delivered, fired, looping, running>>

NoThread == "none"
MainThread == "main"
\* std::process::exit has run: the process has no thread left.
Exited == "exited"

\* What the native layer answered during a wrapper call: the pointer of its
\* create call and the answer of the buffer query.
NullData == AddrData(NULL, 0, 0, 0)
Native(ptr, q) == [ptr |-> ptr, q |-> q]
NoNative == Native(NULL, NullData)

\* op: the wrapper function; text, h, a, b: its text, handle and integer
\* arguments; nat: the native answers; r, calls: its result and native calls.
Last(op, text, h, a, b, nat, d) ==
    [op |-> op, text |-> text, h |-> h, a |-> a, b |-> b, nat |-> nat,
     r |-> d.r, calls |-> d.calls]

Init ==
    /\ mlxs = {}
    /\ windows = {}
    /\ images = {}
    /\ nativeMlx = {}
    /\ nativeWins = {}
    /\ nativeImgs = <<>>
    /\ last = Last("none", <<>>, NULL, 0, 0, NoNative, Done(Ok(NULL), <<>>))
    /\ crashed = FALSE
    /\ nWrites = 0
    /\ boxes = <<>>
    /\ registry = <<>>
    /\ queue = <<>>
    /\ enq = <<>>
    /\ delivered = <<>>
    /\ fired = <<>>
    /\ looping = NoThread
    /\ running = <<>>

\* ------------------------------------------------------- the native mock
\* The allocator hands out the lowest address that holds no live object.
Fresh(addrs, live) == {p \in addrs \ live : \A o \in addrs \ live : p <= o}

\* mlx_init, mlx_new_window, mlx_new_image and the xpm decoders answer null or
\* the address of a fresh object.
mlx_init_rets == {NULL} \cup Fresh(MlxAddrs, nativeMlx)
mlx_new_window_rets == {NULL} \cup Fresh(WinAddrs, nativeWins)
mlx_new_image_rets == {NULL} \cup Fresh(ImgAddrs, DOMAIN nativeImgs)

\* A native image: its rows are size_line bytes, its buffer size_line * height.
NativeImage(width, height, bpp, endian) ==
    [width |-> width, height |-> height, bits_per_pixel |-> bpp,
     size_line |-> width * (bpp \div 8), endian |-> endian,
     data |-> Zeros(width * (bpp \div 8) * height)]

\* mlx_get_data_addr answers null, or the buffer with the image's attributes.
mlx_get_data_addr_rets(ptr, ni) ==
    {NullData, AddrData(ptr, ni.bits_per_pixel, ni.size_line, ni.endian)}

\* What the native layer can do with a request for an image of the given size:
\* refuse it (null), or allocate it at ptr as ni and answer the buffer query
\* that follows with q.
NoImage == NativeImage(0, 0, 0, 0)
ImageAnswers(width, height) ==
    {[ptr |-> NULL, ni |-> NoImage, q |-> NullData]}
    \cup UNION {LET ni == NativeImage(width, height, c[2][1], c[2][2])
                IN  {[ptr |-> c[1], ni |-> ni, q |-> q] :
                        q \in mlx_get_data_addr_rets(c[1], ni)} :
                c \in (mlx_new_image_rets \ {NULL}) \X NativeFormats}

\* An access through a dangling or out of range pointer either kills the
\* process or goes unnoticed.
Undefined == crashed' \in BOOLEAN

Made(d, fn) == \E i \in 1..Len(d.calls) : d.calls[i].fn = fn

\* ------------------------------------------------------------- actions
MlxNew ==
    /\ ~crashed
    /\ \E ptr \in mlx_init_rets :
         LET d == Mlx_new(ptr)
         IN  /\ nativeMlx' = IF ptr # NULL THEN nativeMlx \cup {ptr} ELSE nativeMlx
             /\ mlxs' = IF d.r.ok THEN {d.r.val} ELSE mlxs
             /\ last' = Last("new", <<>>, NULL, 0, 0, Native(ptr, NullData), d)
    /\ UNCHANGED <<windows, images, nativeWins, nativeImgs, crashed, nWrites>>
    /\ UNCHANGED hookVars

NewWindow ==
    /\ ~crashed
    /\ \E self \in mlxs, size \in WinSizes, title \in Texts, ptr \in mlx_new_window_rets :
         LET d == Mlx_new_window(self, size[1], size[2], title, ptr)
             made == Made(d, "mlx_new_window")
         IN  /\ nativeWins' = IF made /\ ptr # NULL THEN nativeWins \cup {ptr}
                              ELSE nativeWins
             /\ windows' = IF d.r.ok THEN windows \cup {d.r.val} ELSE windows
             /\ last' = Last("new_window", title, NULL, size[1], size[2],
                             Native(ptr, NullData), d)
    /\ UNCHANGED <<mlxs, images, nativeMlx, nativeImgs, crashed, nWrites>>
    /\ UNCHANGED hookVars

ClearWindow ==
    /\ ~crashed
    /\ \E self \in mlxs, window \in windows :
         LET d == Mlx_clear_window(self, window)
         IN  /\ IF window.win_ptr \in nativeWins THEN crashed' = FALSE ELSE Undefined
             /\ last' = Last("clear_window", <<>>, window.win_ptr, 0, 0, NoNative, d)
    /\ UNCHANGED <<resourceVars, nWrites>>
    /\ UNCHANGED hookVars

PixelPut ==
    /\ ~crashed
    /\ \E self \in mlxs, window \in windows :
         LET d == Mlx_pixel_put(self, window, 0, 0, 255)
         IN  /\ IF window.win_ptr \in nativeWins THEN crashed' = FALSE ELSE Undefined
             /\ last' = Last("pixel_put", <<>>, window.win_ptr, 0, 0, NoNative, d)
    /\ UNCHANGED <<resourceVars, nWrites>>
    /\ UNCHANGED hookVars

StringPut ==
    /\ ~crashed
    /\ \E self \in mlxs, window \in windows, s \in Texts :
         LET d == Mlx_string_put(self, window, 0, 0, 255, s)
         IN  /\ IF Made(d, "mlx_string_put") /\ window.win_ptr \notin nativeWins
                THEN Undefined ELSE crashed' = FALSE
             /\ last' = Last("string_put", s, window.win_ptr, 0, 0, NoNative, d)
    /\ UNCHANGED <<resourceVars, nWrites>>
    /\ UNCHANGED hookVars

DestroyWindow ==
    /\ ~crashed
    /\ \E self \in mlxs, window \in windows :
         LET d == Mlx_destroy_window(self, window)
         IN  /\ IF window.win_ptr \in nativeWins THEN crashed' = FALSE ELSE Undefined
             /\ nativeWins' = nativeWins \ {window.win_ptr}
             /\ windows' = drop_ref(windows, window)
             /\ last' = Last("destroy_window", <<>>, window.win_ptr, 0, 0, NoNative, d)
    /\ UNCHANGED <<mlxs, images, nativeMlx, nativeImgs, nWrites>>
    /\ UNCHANGED hookVars

\* The image a creation call leaves on the native side, and the handle (if
\* any) it leaves with the client, which keeps its image in one variable
\* (let image = ...): a new handle takes the place of the one held before.
ImageCreated(op, text, w, h, n, d, fn) ==
    /\ nativeImgs' = IF Made(d, fn) /\ n.ptr # NULL /\ ~Made(d, "mlx_destroy_image")
                     THEN (n.ptr :> n.ni) @@ nativeImgs
                     ELSE nativeImgs
    /\ images' = IF d.r.ok THEN {d.r.val} ELSE images
    /\ last' = Last(op, text, NULL, w, h, Native(n.ptr, n.q), d)

NewImage ==
    /\ ~crashed
    /\ \E self \in mlxs, width \in Dims, height \in Dims :
         \E n \in ImageAnswers(width, height) :
           ImageCreated("new_image", <<>>, width, height, n,
                        Mlx_new_image(self, width, height, n.ptr, n.q), "mlx_new_image")
    /\ UNCHANGED <<mlxs, windows, nativeMlx, nativeWins, crashed, nWrites>>
    /\ UNCHANGED hookVars

\* The xpm decoders report the decoded image's size through their out-params;
\* on failure they leave them as the wrapper initialised them (0, 0).
XpmToImage ==
    /\ ~crashed
    /\ \E self \in mlxs, size \in XpmSizes :
         \E n \in ImageAnswers(size[1], size[2]) :
           ImageCreated("xpm_to_image", <<>>, n.ni.width, n.ni.height, n,
                        Mlx_xpm_to_image(self, n.ptr, n.ni.width, n.ni.height, n.q),
                        "mlx_xpm_to_image")
    /\ UNCHANGED <<mlxs, windows, nativeMlx, nativeWins, crashed, nWrites>>
    /\ UNCHANGED hookVars

XpmFileToImage ==
    /\ ~crashed
    /\ \E self \in mlxs, filename \in Texts, size \in XpmSizes :
         \E n \in ImageAnswers(size[1], size[2]) :
           ImageCreated("xpm_file_to_image", filename, n.ni.width, n.ni.height, n,
                        Mlx_xpm_file_to_image(self, filename, n.ptr, n.ni.width,
                                              n.ni.height, n.q),
                        "mlx_xpm_file_to_image")
    /\ UNCHANGED <<mlxs, windows, nativeMlx, nativeWins, crashed, nWrites>>
    /\ UNCHANGED hookVars

DestroyImage ==
    /\ ~crashed
    /\ \E self \in mlxs, image \in images :
         LET d == Mlx_destroy_image(self, image)
         IN  /\ IF image.img_ptr \in DOMAIN nativeImgs THEN crashed' = FALSE ELSE Undefined
             /\ nativeImgs' = [p \in DOMAIN nativeImgs \ {image.img_ptr} |-> nativeImgs[p]]
             /\ images' = drop_ref(images, image)
             /\ last' = Last("destroy_image", <<>>, image.img_ptr, 0, 0, NoNative, d)
    /\ UNCHANGED <<mlxs, windows, nativeMlx, nativeWins, nWrites>>
    /\ UNCHANGED hookVars

PutImageToWindow ==
    /\ ~crashed
    /\ \E self \in mlxs, window \in windows, image \in images :
         LET d == Mlx_put_image_to_window(self, window, image, 0, 0)
         IN  /\ IF /\ window.win_ptr \in nativeWins
                   /\ image.img_ptr \in DOMAIN nativeImgs
                THEN crashed' = FALSE ELSE Undefined
             /\ last' = Last("put_image_to_window", <<>>, image.img_ptr, 0, 0, NoNative, d)
    /\ UNCHANGED <<resourceVars, nWrites>>
    /\ UNCHANGED hookVars

\* The native image the handle was made for is still the one at its address.
Backs(image) ==
    /\ image.img_ptr \in DOMAIN nativeImgs
    /\ image.area_start = image.img_ptr
    /\ LET ni == nativeImgs[image.img_ptr]
       IN  /\ ni.width = image.width
           /\ ni.height = image.height
           /\ ni.bits_per_pixel = image.bits_per_pixel
           /\ ni.size_line = image.size_line
           /\ Endian(ni.endian) = image.endian

\* The handle's buffer is live and the offset lies inside it.
InRange(image, offset) ==
    /\ Backs(image)
    /\ 0 <= offset
    /\ offset < Len(nativeImgs[image.area_start].data)

\* Where a write through a dangling pointer or past the buffer can land, as
\* far as the native images are concerned: nowhere the model keeps, or in
\* whatever buffer now lies at that address.
StrayWrites(image, offset, value) ==
    {nativeImgs}
    \cup {[nativeImgs EXCEPT ![p].data = write_to(@, offset, value)] :
            p \in {a \in DOMAIN nativeImgs :
                     /\ a = image.area_start
                     /\ 0 <= offset
                     /\ offset < Len(nativeImgs[a].data)}}

WriteTo ==
    /\ ~crashed
    /\ nWrites < MaxWrites
    /\ nWrites' = nWrites + 1
    /\ \E image \in images, offset \in Offsets, value \in ByteVals :
         /\ IF InRange(image, offset)
            THEN /\ nativeImgs' =
                      [nativeImgs EXCEPT ![image.area_start].data =
                          write_to(@, offset, value)]
                 /\ crashed' = FALSE
            ELSE /\ Undefined
                 /\ nativeImgs' \in StrayWrites(image, offset, value)
         /\ last' = Last("write_to", <<>>, image.img_ptr, offset, value, NoNative,
                         Done(Ok(NULL), <<>>))
    /\ UNCHANGED <<mlxs, windows, images, nativeMlx, nativeWins>>
    /\ UNCHANGED hookVars

\* ------------------------------------------------- hooks: native side
\* mlx_mouse_hook, mlx_key_hook, mlx_expose_hook, mlx_loop_hook and mlx_hook
\* keep one (function, context) pair per pointer, hook kind and x_event; a
\* later registration takes the place of an earlier one.
HookKey(call) == <<call.win, call.func, call.x_event>>
mlx_register(reg, call) ==
    (HookKey(call) :> [func |-> call.func, param |-> call.param]) @@ reg

\* The native loop calling a registered function with the event's values and
\* the context pointer it was registered with.
CallHook(func, heap, vals, data) ==
    CASE func = "mouse" -> mouse_call_closure(heap, vals[1], vals[2], vals[3], data)
      [] func = "key" -> key_call_closure(heap, vals[1], data)
      [] func = "expose" -> expose_call_closure(heap, data)
      [] func = "loop" -> loop_call_closure(heap, data)
      [] func = "hook" -> hook_call_closure(heap, data)

Event(id, kind, win, x_event, vals) ==
    [id |-> id, kind |-> kind, win |-> win, x_event |-> x_event, vals |-> vals]

\* The events the windowing system can raise on a window.
EventsOn(id, win) ==
    {Event(id, "mouse", win, 0, v) : v \in MouseVals}
    \cup {Event(id, "key", win, 0, <<k>>) : k \in KeyCodes}
    \cup {Event(id, "expose", win, 0, <<>>)}
    \cup {Event(id, "hook", win, x, <<>>) : x \in XEvents}

\* The native layer holds a function for this event.
HasHook(e) == <<e.win, e.kind, e.x_event>> \in DOMAIN registry

\* The callbacks one event runs, each tagged with the event and the thread.
Fire(e, thread) ==
    LET key == <<e.win, e.kind, e.x_event>>
        ran == IF HasHook(e)
               THEN CallHook(registry[key].func, boxes, e.vals, registry[key].param)
               ELSE <<>>
    IN  [i \in 1..Len(ran) |-> [inv |-> ran[i], ev |-> e.id, thread |-> thread]]

Registered(r) ==
    /\ boxes' = r.heap
    /\ registry' = mlx_register(registry, r.call)

HookFrame ==
    /\ UNCHANGED <<resourceVars, crashed, nWrites, last>>
    /\ UNCHANGED <<queue, enq, delivered, fired, looping, running>>

\* The client passes a static of its own with each registration: the n-th
\* registration passes the n-th static.
ArgRefs(heap) == {100 + NewBoxAddr(heap)}

\* The client registers its hooks on its first window; its second window
\* gets events and has no hook.
HookTargets == {window \in windows : window.win_ptr = 1}

CanRegister == ~crashed /\ Cardinality(DOMAIN boxes) < MaxBoxes

MouseHook ==
    /\ CanRegister
    /\ \E window \in HookTargets, args \in ArgRefs(boxes) :
         Registered(MlxWindow_mouse_hook(window, boxes, args))
    /\ HookFrame

KeyHook ==
    /\ CanRegister
    /\ \E window \in HookTargets, args \in ArgRefs(boxes) :
         Registered(MlxWindow_key_hook(window, boxes, args))
    /\ HookFrame

ExposeHook ==
    /\ CanRegister
    /\ \E window \in HookTargets, args \in ArgRefs(boxes) :
         Registered(MlxWindow_expose_hook(window, boxes, args))
    /\ HookFrame

LoopHook ==
    /\ CanRegister
    /\ \E window \in HookTargets, args \in ArgRefs(boxes) :
         Registered(MlxWindow_loop_hook(window, boxes, args))
    /\ HookFrame

Hook ==
    /\ CanRegister
    /\ \E window \in HookTargets, args \in ArgRefs(boxes), x_event \in XEvents, x_mask \in XMasks :
         Registered(MlxWindow_hook(window, boxes, x_event, x_mask, args))
    /\ HookFrame

\* Mlx::event_loop: the calling thread enters mlx_loop.
EventLoop ==
    /\ ~crashed
    /\ looping = NoThread
    /\ \E self \in mlxs : looping' = Mlx_event_loop(self, MainThread).thread
    /\ UNCHANGED <<resourceVars, crashed, nWrites, last>>
    /\ UNCHANGED <<boxes, registry, queue, enq, delivered, fired, running>>

\* The windowing system raises an event on a live window.
Enqueue ==
    /\ ~crashed
    /\ Len(enq) < MaxEvents
    /\ \E win \in nativeWins : \E e \in EventsOn(Len(enq) + 1, win) :
         /\ queue' = Append(queue, e)
         /\ enq' = Append(enq, e)
    /\ UNCHANGED <<resourceVars, crashed, nWrites, last>>
    /\ UNCHANGED <<boxes, registry, delivered, fired, looping, running>>

\* mlx_loop takes the oldest event and calls the function registered for it.
Dispatch ==
    /\ ~crashed
    /\ looping # NoThread
    /\ queue # <<>>
    /\ LET e == Head(queue)
           ran == Fire(e, looping)
       IN  /\ queue' = Tail(queue)
           /\ delivered' = Append(delivered, [ev |-> e, hooked |-> HasHook(e)])
           /\ fired' = fired \o ran
    /\ UNCHANGED <<resourceVars, crashed, nWrites, last>>
    /\ UNCHANGED <<boxes, registry, enq, looping, running>>

\* mlx_loop with no event pending calls a registered loop hook.
LoopTick ==
    /\ ~crashed
    /\ looping # NoThread
    /\ queue = <<>>
    /\ Len(enq) < MaxEvents
    /\ \E key \in DOMAIN registry :
         /\ key[2] = "loop"
         /\ LET e == Event(Len(enq) + 1, "loop", key[1], 0, <<>>)
                ran == Fire(e, looping)
            IN  /\ enq' = Append(enq, e)
                /\ delivered' = Append(delivered, [ev |-> e, hooked |-> HasHook(e)])
                /\ fired' = fired \o ran
    /\ UNCHANGED <<resourceVars, crashed, nWrites, last>>
    /\ UNCHANGED <<boxes, registry, queue, looping, running>>

\* The client of displays, windows and text taking calls.
Next ==
    \/ MlxNew
    \/ NewWindow
    \/ ClearWindow
    \/ PixelPut
    \/ StringPut
    \/ DestroyWindow
    \/ XpmFileToImage
    \/ DestroyImage
    \/ PutImageToWindow

Spec == Init /\ [][Next]_vars

\* The client of images: creation, destruction and raw buffer writes.
NextImage ==
    \/ NewImage
    \/ XpmToImage
    \/ DestroyImage
    \/ WriteTo

\* A client that has opened its display.
InitImage ==
    /\ mlxs = {Mlx(1)}
    /\ windows = {}
    /\ images = {}
    /\ nativeMlx = {1}
    /\ nativeWins = {}
    /\ nativeImgs = <<>>
    /\ last = Last("new", <<>>, NULL, 0, 0, Native(1, NullData), Mlx_new(1))
    /\ crashed = FALSE
    /\ nWrites = 0
    /\ boxes = <<>>
    /\ registry = <<>>
    /\ queue = <<>>
    /\ enq = <<>>
    /\ delivered = <<>>
    /\ fired = <<>>
    /\ looping = NoThread
    /\ running = <<>>

SpecImage == InitImage /\ [][NextImage]_vars

\* A client that has opened its display and two windows and goes on to
\* register hooks and run the event loop.
InitHooks ==
    /\ mlxs = {Mlx(1)}
    /\ windows = {MlxWindow(w) : w \in WinAddrs}
    /\ images = {}
    /\ nativeMlx = {1}
    /\ nativeWins = WinAddrs
    /\ nativeImgs = <<>>
    /\ last = Last("new_window", <<65>>, NULL, 2, 1, Native(2, NullData),
                   Mlx_new_window(Mlx(1), 2, 1, <<65>>, 2))
    /\ crashed = FALSE
    /\ nWrites = 0
    /\ boxes = <<>>
    /\ registry = <<>>
    /\ queue = <<>>
    /\ enq = <<>>
    /\ delivered = <<>>
    /\ fired = <<>>
    /\ looping = NoThread
    /\ running = <<>>

NextHooks ==
    \/ MouseHook
    \/ KeyHook
    \/ ExposeHook
    \/ LoopHook
    \/ Hook
    \/ EventLoop
    \/ Enqueue
    \/ Dispatch
    \/ LoopTick

SpecHooks == InitHooks /\ [][NextHooks]_vars

\* ================================================================ claims
NativeInit == last.nat.ptr
CallCount(fn) == Cardinality({i \in 1..Len(last.calls) : last.calls[i].fn = fn})

\* C1: Mlx::new makes exactly one native call, mlx_init; it returns
\* Err(MlxError::Init) exactly when that call answered null, and for every
\* other answer Ok with a handle that wraps the pointer answered.
C1_NewFailsExactlyOnNull ==
    last.op = "new" =>
        /\ Len(last.calls) = 1
        /\ last.calls[1].fn = "mlx_init"
        /\ last.calls[1].ret = NativeInit
        /\ (NativeInit = NULL <=> ~last.r.ok)
        /\ (~last.r.ok => last.r.err = MlxErrorInit)
        /\ (last.r.ok => last.r.val = Mlx(NativeInit) /\ mlxs = {Mlx(NativeInit)})

C1_Witness ==
    last.op = "new" /\ NativeInit = NULL /\ ~last.r.ok /\ last.r.err = MlxErrorInit

\* C2: when mlx_new_window answers null, Mlx::new_window fails with
\* MlxError::Window; when it answers a pointer, new_window returns Ok with a
\* window handle wrapping that pointer; and a failing new_window hands the
\* client no window handle.
C2_NewWindowFailsOnNull ==
    [][last'.op = "new_window" =>
          /\ (CallCount("mlx_new_window") = 1)' /\ last'.nat.ptr = NULL
                => ~last'.r.ok /\ last'.r.err = MlxErrorWindow
          /\ (CallCount("mlx_new_window") = 1)' /\ last'.nat.ptr # NULL
                => /\ last'.r.ok
                   /\ last'.r.val = MlxWindow(last'.nat.ptr)
                   /\ windows' = windows \cup {MlxWindow(last'.nat.ptr)}
          /\ ~last'.r.ok => last'.r.val = NULL /\ windows' = windows]_vars

C2_Witness ==
    /\ last.op = "new_window"
    /\ CallCount("mlx_new_window") = 1
    /\ last.nat.ptr = NULL
    /\ last.r.err = MlxErrorWindow

TextOps == {"string_put", "new_window", "xpm_file_to_image"}
NativeOf(op) ==
    CASE op = "string_put" -> "mlx_string_put"
      [] op = "new_window" -> "mlx_new_window"
      [] op = "xpm_file_to_image" -> "mlx_xpm_file_to_image"

\* C3: string_put, new_window and xpm_file_to_image given a text with a NUL
\* byte in it return an encoding error (MlxError::Any) without any native
\* call; given a text without one they call their native entry point exactly
\* once, with the text followed by the terminating NUL.
C3_NulTextFailsBeforeNative ==
    last.op \in TextOps =>
        /\ HasNul(last.text) =>
              /\ ~last.r.ok
              /\ last.r.err = MlxErrorAny(<<"Error creating string ", last.text>>)
              /\ last.calls = <<>>
        /\ ~HasNul(last.text) =>
              /\ CallCount(NativeOf(last.op)) = 1
              /\ last.calls[1].fn = NativeOf(last.op)
              /\ last.calls[1].str = last.text \o <<0>>

C3_Witness ==
    /\ last.op = "string_put"
    /\ last.text = <<65, 0>>
    /\ ~last.r.ok
    /\ last.calls = <<>>

\* C4: new_image(w, h) with w > 0 and h > 0, against a native layer that
\* answers a non-null image and a non-null buffer, succeeds; the handle has
\* width w and height h, and its bits_per_pixel and size_line are the values
\* the buffer query reported.
C4_NewImageKeepsSize ==
    /\ last.op = "new_image"
    /\ last.a > 0
    /\ last.b > 0
    /\ last.nat.ptr # NULL
    /\ last.nat.q.area # NULL
    => /\ last.r.ok
       /\ last.r.val.img_ptr = last.nat.ptr
       /\ last.r.val.width = last.a
       /\ last.r.val.height = last.b
       /\ last.r.val.bits_per_pixel = last.nat.q.bits_per_pixel
       /\ last.r.val.size_line = last.nat.q.size_line
       /\ images = {last.r.val}

C4_Witness ==
    /\ last.op = "new_image"
    /\ last.a = 1
    /\ last.b = 2
    /\ last.r.ok
    /\ last.r.val.width = 1
    /\ last.r.val.height = 2
    /\ last.r.val.bits_per_pixel = 16
    /\ last.r.val.size_line = 2

\* C5: whenever the native layer answers null to new_image, from the image
\* allocation or from the buffer query, new_image returns MlxError::Any and
\* the client is handed no image handle.
C5_NewImageFailsOnNull ==
    [][/\ last'.op = "new_image"
       /\ (last'.nat.ptr = NULL \/ last'.nat.q.area = NULL)
       => /\ ~last'.r.ok
          /\ last'.r.err.kind = "Any"
          /\ last'.r.val = NULL
          /\ images' = images]_vars

C5_Witness ==
    /\ last.op = "new_image"
    /\ last.nat.ptr # NULL
    /\ last.nat.q.area = NULL
    /\ ~last.r.ok
    /\ last.r.err = MlxErrorAny(<<"Error when trying to access image data">>)

\* C8: write_to(offset, value) with an offset inside the buffer leaves value
\* (as the same eight bits) at that offset, leaves every other byte of the
\* buffer, the buffer's length and the native attributes as they were, and
\* leaves the image handle's cached attributes as they were.
C8_WriteToTouchesOneByte ==
    [][\A image \in images :
          /\ last'.op = "write_to"
          /\ nWrites' = nWrites + 1
          /\ InRange(image, last'.a)
          => LET before == nativeImgs[image.area_start]
                 after == nativeImgs'[image.area_start]
             IN  /\ DOMAIN nativeImgs' = DOMAIN nativeImgs
                 /\ Len(after.data) = Len(before.data)
                 /\ i8_as_u8(after.data[last'.a + 1]) = last'.b
                 /\ after.data[last'.a + 1] \in -128..127
                 /\ \A j \in 1..Len(before.data) :
                       j # last'.a + 1 => after.data[j] = before.data[j]
                 /\ [after EXCEPT !.data = before.data] = before
                 /\ images' = images
                 /\ ~crashed']_vars

C8_Witness ==
    /\ last.op = "write_to"
    /\ last.a = 0
    /\ last.b = 255
    /\ \E image \in images :
         /\ Backs(image)
         /\ Len(nativeImgs[image.area_start].data) = 2
         /\ nativeImgs[image.area_start].data = <<-1, 0>>

\* C9: once destroy_window or destroy_image has returned, the client no
\* longer holds the handle of the resource it destroyed.
C9_DestroyTakesHandle ==
    /\ last.op = "destroy_window" => MlxWindow(last.h) \notin windows
    /\ last.op = "destroy_image" => \A image \in images : image.img_ptr # last.h

\* C6: with a mouse hook registered on a window, the native loop delivering
\* a mouse event (buttons, x, y) of that window runs exactly one callback:
\* the closure of that registration, with those three values and the args
\* reference it was registered with, on the thread that runs the event loop.
C6_MouseEventRunsCallbackOnce ==
    [][/\ queue # <<>>
       /\ queue' = Tail(queue)
       /\ Head(queue).kind = "mouse"
       /\ HasHook(Head(queue))
       => LET e == Head(queue)
              p == registry[<<e.win, "mouse", 0>>].param
          IN  /\ p \in DOMAIN boxes
              /\ boxes[p].kind = "mouse"
              /\ boxes[p].args = 100 + p
              /\ looping = MainThread
              /\ fired' = Append(fired,
                                 [inv |-> [kind |-> "mouse",
                                           box |-> p,
                                           vals |-> e.vals,
                                           args |-> boxes[p].args],
                                  ev |-> e.id,
                                  thread |-> MainThread])]_vars

C6_Witness ==
    /\ Len(delivered) = 1
    /\ delivered[1].ev.kind = "mouse"
    /\ delivered[1].ev.vals = <<1, 10, 20>>
    /\ Len(fired) = 1
    /\ fired[1].inv.kind = "mouse"
    /\ fired[1].inv.vals = <<1, 10, 20>>
    /\ fired[1].thread = MainThread
    /\ Cardinality(DOMAIN registry) = 2

HookedEvents == SelectSeq(delivered, LAMBDA d : d.hooked)

\* C7: the callbacks that have fired are, in order and one for one, the
\* events delivered so far that had a hook registered, each run by the hook
\* of its own kind; and the events delivered so far followed by the events
\* still queued are the events in the order they were enqueued.
C7_DispatchKeepsOrder ==
    /\ [i \in 1..Len(delivered) |-> delivered[i].ev] \o queue = enq
    /\ \A i \in 1..Len(enq) : enq[i].id = i
    /\ Len(fired) = Len(HookedEvents)
    /\ \A i \in 1..Len(fired) :
          /\ fired[i].ev = HookedEvents[i].ev.id
          /\ fired[i].inv.kind = HookedEvents[i].ev.kind
          /\ fired[i].inv.vals = HookedEvents[i].ev.vals
    /\ \A i, j \in 1..Len(fired) : i < j => fired[i].ev < fired[j].ev

C7_Witness ==
    /\ Len(enq) = 2
    /\ enq[1].kind = "key"
    /\ enq[1].vals = <<13>>
    /\ enq[2].kind = "expose"
    /\ Len(fired) = 2
    /\ fired[1].inv.kind = "key"
    /\ fired[1].inv.vals = <<13>>
    /\ fired[2].inv.kind = "expose"

\* C10: no step releases or changes a boxed closure; a step that registers
\* a hook adds exactly one boxed closure and registers its address; and
\* every context pointer the native layer holds is the address of a live
\* boxed closure.
C10_BoxedClosuresOnlyGrow ==
    [][/\ DOMAIN boxes \subseteq DOMAIN boxes'
       /\ \A p \in DOMAIN boxes : boxes'[p] = boxes[p]
       /\ registry' # registry =>
             /\ Cardinality(DOMAIN boxes') = Cardinality(DOMAIN boxes) + 1
             /\ \E k \in DOMAIN registry' :
                   /\ registry'[k].param \in DOMAIN boxes' \ DOMAIN boxes
                   /\ boxes'[registry'[k].param].kind = k[2]
       /\ registry' = registry => boxes' = boxes
       /\ \A k \in DOMAIN registry' : registry'[k].param \in DOMAIN boxes']_vars

C10_Witness ==
    /\ Cardinality(DOMAIN boxes) = 2
    /\ Cardinality(DOMAIN registry) = 1
    /\ \E p \in DOMAIN boxes : \A k \in DOMAIN registry : registry[k].param # p

\* ---------------------------------------- the event loop, step by step
\* A client that has opened its display and two windows and registered a key
\* hook and a mouse hook on the first window.
LoopKeyHook == MlxWindow_key_hook(MlxWindow(1), <<>>, 101)
LoopMouseHook == MlxWindow_mouse_hook(MlxWindow(1), LoopKeyHook.heap, 102)

InitLoop ==
    /\ mlxs = {Mlx(1)}
    /\ windows = {MlxWindow(w) : w \in WinAddrs}
    /\ images = {}
    /\ nativeMlx = {1}
    /\ nativeWins = WinAddrs
    /\ nativeImgs = <<>>
    /\ last = Last("mouse_hook", <<>>, 1, 0, 0, NoNative, Done(Ok(NULL), <<>>))
    /\ crashed = FALSE
    /\ nWrites = 0
    /\ boxes = LoopMouseHook.heap
    /\ registry = mlx_register(mlx_register(<<>>, LoopKeyHook.call), LoopMouseHook.call)
    /\ queue = <<>>
    /\ enq = <<>>
    /\ delivered = <<>>
    /\ fired = <<>>
    /\ looping = NoThread
    /\ running = <<>>

\* The thread inside mlx_loop is inside a callback it has called.
LoopBusy == \E i \in 1..Len(running) : running[i].thread = looping

\* mlx_loop takes the oldest event and calls the function registered for it;
\* it goes on only when that call has returned.
HookEnter ==
    /\ ~crashed
    /\ looping = MainThread
    /\ ~LoopBusy
    /\ queue # <<>>
    /\ LET e == Head(queue)
           ran == Fire(e, call_closure_thread(looping))
       IN  /\ queue' = Tail(queue)
           /\ delivered' = Append(delivered, [ev |-> e, hooked |-> HasHook(e)])
           /\ fired' = fired \o ran
           /\ running' = running \o ran
    /\ UNCHANGED <<resourceVars, crashed, nWrites, last>>
    /\ UNCHANGED <<boxes, registry, enq, looping>>

\* A user callback returns.
HookReturn ==
    /\ looping # Exited
    /\ \E i \in 1..Len(running) :
         running' = SubSeq(running, 1, i - 1) \o SubSeq(running, i + 1, Len(running))
    /\ UNCHANGED <<resourceVars, crashed, nWrites, last>>
    /\ UNCHANGED <<boxes, registry, queue, enq, delivered, fired, looping>>

\* A user callback calls std::process::exit.
HookExit ==
    /\ looping # Exited
    /\ running # <<>>
    /\ looping' = Exited
    /\ running' = <<>>
    /\ UNCHANGED <<resourceVars, crashed, nWrites, last>>
    /\ UNCHANGED <<boxes, registry, queue, enq, delivered, fired>>

\* mlx_loop returns, and with it ffi::event_loop and Mlx::event_loop.
LoopReturn ==
    /\ ~crashed
    /\ looping = MainThread
    /\ ~LoopBusy
    /\ \E self \in mlxs :
         /\ last' = Last("event_loop", <<>>, self.mlx_ptr, 0, 0, NoNative,
                         Done(Ok(NULL), <<Mlx_event_loop(self, looping).call>>))
    /\ looping' = NoThread
    /\ UNCHANGED <<resourceVars, crashed, nWrites>>
    /\ UNCHANGED <<boxes, registry, queue, enq, delivered, fired, running>>

NextLoop ==
    \/ EventLoop
    \/ Enqueue
    \/ HookEnter
    \/ HookReturn
    \/ HookExit
    \/ LoopReturn

SpecLoop == InitLoop /\ [][NextLoop]_vars

\* C11: after every step at most one user callback has begun and not yet
\* returned, and it runs on the thread that is inside Mlx::event_loop; and
\* the thread inside event_loop leaves it only because mlx_loop returned or
\* because a running callback ended the process.
C11_HooksRunOneAtATimeInLoop ==
    [][/\ Len(running') <= 1
       /\ \A i \in 1..Len(running') :
             /\ looping' = MainThread
             /\ running'[i].thread = looping'
       /\ looping = MainThread /\ looping' # MainThread =>
             \/ /\ looping' = NoThread
                /\ running = <<>>
                /\ last'.op = "event_loop"
                /\ last'.calls = <<Call("mlx_loop", <<>>, 1, <<>>)>>
             \/ /\ looping' = Exited
                /\ running # <<>>]_vars

C11_Witness ==
    /\ looping = MainThread
    /\ Len(fired) = 2
    /\ Len(running) = 1
    /\ running[1] = fired[2]
    /\ running[1].thread = MainThread

\* ------------------------------------------------ image creation alone
\* The client of the three image constructors and destroy_image.
NextCreate ==
    \/ NewImage
    \/ XpmToImage
    \/ XpmFileToImage
    \/ DestroyImage

SpecCreate == InitImage /\ [][NextCreate]_vars

CreateOps == {"new_image", "xpm_to_image", "xpm_file_to_image"}
CreateFn(op) ==
    CASE op = "new_image" -> "mlx_new_image"
      [] op = "xpm_to_image" -> "mlx_xpm_to_image"
      [] op = "xpm_file_to_image" -> "mlx_xpm_file_to_image"

\* C15: when new_image, xpm_to_image or xpm_file_to_image has its native
\* creation call answered with an image and the buffer query that follows
\* answered with null, it returns an error and no handle, it makes no
\* mlx_destroy_image call, and the image just allocated stays allocated: the
\* set of allocated native images has grown by it.
C15_FailedQueryLeaksImage ==
    [][/\ last'.op \in CreateOps
       /\ (CallCount(CreateFn(last.op)) = 1)'
       /\ last'.nat.ptr # NULL
       /\ last'.nat.q.area = NULL
       => /\ ~last'.r.ok
          /\ last'.r.val = NULL
          /\ images' = images
          /\ (CallCount("mlx_get_data_addr") = 1)'
          /\ (CallCount("mlx_destroy_image") = 0)'
          /\ last'.nat.ptr \notin DOMAIN nativeImgs
          /\ DOMAIN nativeImgs' = DOMAIN nativeImgs \cup {last'.nat.ptr}]_vars

C15_Witness ==
    /\ last.op = "xpm_file_to_image"
    /\ last.text = <<65>>
    /\ CallCount("mlx_xpm_file_to_image") = 1
    /\ last.nat.ptr = 1
    /\ last.nat.q.area = NULL
    /\ ~last.r.ok
    /\ images = {}
    /\ DOMAIN nativeImgs = {1}

\* C14: an image handle a constructor returns has endian Big exactly when
\* the buffer query reported flag 1 and Little for any other flag; and a
\* step that is not a successful constructor call (write_to, destroy_image,
\* a failed constructor) leaves the handle the client holds, its endian
\* included, as it was.
C14_EndianCachedAtCreation ==
    [][/\ last'.op \in CreateOps /\ last'.r.ok =>
             /\ last'.r.val.endian = "Big" <=> last'.nat.q.endian = 1
             /\ last'.r.val.endian = "Little" <=> last'.nat.q.endian # 1
             /\ images' = {last'.r.val}
       /\ ~(last'.op \in CreateOps /\ last'.r.ok) =>
             /\ images' = images
             /\ \A image \in images : \E kept \in images' : kept.endian = image.endian]_vars

C14_Witness ==
    /\ last.op = "write_to"
    /\ \E image \in images :
         /\ Backs(image)
         /\ nativeImgs[image.img_ptr].endian = 2
         /\ image.endian = "Little"

\* ------------------------------------------------- handles leaving scope
\* Mlx, MlxWindow and MlxImage are Copy and have no Drop impl: when a handle
\* goes out of scope nothing runs and no native call is made.
drop_glue(handle) == Done(Ok(NULL), <<>>)

MlxScopeExit ==
    /\ ~crashed
    /\ \E self \in mlxs :
         /\ mlxs' = mlxs \ {self}
         /\ last' = Last("scope_exit_mlx", <<>>, self.mlx_ptr, 0, 0, NoNative,
                         drop_glue(self))
    /\ UNCHANGED <<windows, images, nativeMlx, nativeWins, nativeImgs, crashed, nWrites>>
    /\ UNCHANGED hookVars

WindowScopeExit ==
    /\ ~crashed
    /\ \E window \in windows :
         /\ windows' = windows \ {window}
         /\ last' = Last("scope_exit_window", <<>>, window.win_ptr, 0, 0, NoNative,
                         drop_glue(window))
    /\ UNCHANGED <<mlxs, images, nativeMlx, nativeWins, nativeImgs, crashed, nWrites>>
    /\ UNCHANGED hookVars

ImageScopeExit ==
    /\ ~crashed
    /\ \E image \in images :
         /\ images' = images \ {image}
         /\ last' = Last("scope_exit_image", <<>>, image.img_ptr, 0, 0, NoNative,
                         drop_glue(image))
    /\ UNCHANGED <<mlxs, windows, nativeMlx, nativeWins, nativeImgs, crashed, nWrites>>
    /\ UNCHANGED hookVars

\* A client that has opened its display, creates and destroys windows and
\* images and lets handles go out of scope.
NextScope ==
    \/ NewWindow
    \/ XpmToImage
    \/ DestroyWindow
    \/ DestroyImage
    \/ MlxScopeExit
    \/ WindowScopeExit
    \/ ImageScopeExit

SpecScope == InitImage /\ [][NextScope]_vars

\* C12: once a display, window or image handle has gone out of scope, the
\* native resource it referred to is no longer allocated.
C12_ScopeExitReleases ==
    /\ last.op = "scope_exit_mlx" => last.h \notin nativeMlx
    /\ last.op = "scope_exit_window" => last.h \notin nativeWins
    /\ last.op = "scope_exit_image" => last.h \notin DOMAIN nativeImgs

\* ------------------------------------------------------ the demo program
\* main.rs: one display, one window, one image, a loop hook that draws the
\* image and a key hook that tears everything down on `q`.
QuitKey == 113
DemoKeys == {13, QuitKey}

\* The statements of the key hook's `if keycode == 113` block, in order.
DemoTeardownDisplayFirst == <<"destroy", "destroy_image", "destroy_window", "exit">>

DemoTeardown == <<"destroy_image", "destroy_window", "destroy", "exit">>

\* ffi::destroy: mlx_destroy_display, then free of the display record.
ffi_destroy(mlx_ptr) ==
    Done(Ok(NULL), <<Call("mlx_destroy_display", <<>>, mlx_ptr, <<>>),
                     Call("free", <<>>, mlx_ptr, <<>>)>>)

\* Mlx::destroy and Mlx::loop_hook, which main.rs calls.
Mlx_destroy(self) == ffi_destroy(self.mlx_ptr)

Mlx_loop_hook(self, heap, args) ==
    ffi_loop_hook(heap, self.mlx_ptr, HookClosure("loop", args))

DemoNativeImage == NativeImage(1, 1, 8, 0)
DemoImage == MlxImage_new(1, 1, 1, AddrData(1, 8, 1, 0)).r.val
DemoLoopHook == Mlx_loop_hook(Mlx(1), <<>>, 101)
DemoKeyHook == MlxWindow_key_hook(MlxWindow(1), DemoLoopHook.heap, 102)

\* main has made its display, window and image and registered both hooks.
InitDemo ==
    /\ mlxs = {Mlx(1)}
    /\ windows = {MlxWindow(1)}
    /\ images = {DemoImage}
    /\ nativeMlx = {1}
    /\ nativeWins = {1}
    /\ nativeImgs = (1 :> DemoNativeImage)
    /\ last = Last("key_hook", <<>>, 1, 0, 0, NoNative, Done(Ok(NULL), <<>>))
    /\ crashed = FALSE
    /\ nWrites = 0
    /\ boxes = DemoKeyHook.heap
    /\ registry = mlx_register(mlx_register(<<>>, DemoLoopHook.call), DemoKeyHook.call)
    /\ queue = <<>>
    /\ enq = <<>>
    /\ delivered = <<>>
    /\ fired = <<>>
    /\ looping = NoThread
    /\ running = <<>>

\* A callback that has just been entered stands before its first statement.
Started(ran) ==
    [i \in 1..Len(ran) |->
        [inv |-> ran[i].inv, ev |-> ran[i].ev, thread |-> ran[i].thread, pc |-> 1]]

\* The user presses a key in the window.
DemoKeyPress ==
    /\ ~crashed
    /\ looping # Exited
    /\ 1 \in nativeWins
    /\ Len(enq) < MaxDemoEvents
    /\ \E keycode \in DemoKeys :
         LET e == Event(Len(enq) + 1, "key", 1, 0, <<keycode>>)
         IN  /\ queue' = Append(queue, e)
             /\ enq' = Append(enq, e)
    /\ UNCHANGED <<resourceVars, crashed, nWrites, last>>
    /\ UNCHANGED <<boxes, registry, delivered, fired, looping, running>>

\* mlx_loop calls the key hook for the oldest key event.
DemoHookEnter ==
    /\ ~crashed
    /\ looping = MainThread
    /\ ~LoopBusy
    /\ queue # <<>>
    /\ LET e == Head(queue)
           ran == Fire(e, call_closure_thread(looping))
       IN  /\ queue' = Tail(queue)
           /\ delivered' = Append(delivered, [ev |-> e, hooked |-> HasHook(e)])
           /\ fired' = fired \o ran
           /\ running' = running \o Started(ran)
    /\ UNCHANGED <<resourceVars, crashed, nWrites, last>>
    /\ UNCHANGED <<boxes, registry, enq, looping>>

InKeyHook == running # <<>> /\ running[1].inv.kind = "key"

\* The key hook for a keycode other than 113: it prints and returns.
KeyHookIgnore ==
    /\ ~crashed
    /\ InKeyHook
    /\ running[1].inv.vals[1] # QuitKey
    /\ running' = Tail(running)
    /\ UNCHANGED <<resourceVars, crashed, nWrites, last>>
    /\ UNCHANGED <<boxes, registry, queue, enq, delivered, fired, looping>>

Statement == DemoTeardown[running[1].pc]
NextStatement == running' = <<[running[1] EXCEPT !.pc = @ + 1]>> \o Tail(running)
DisplayLive(self) == self.mlx_ptr \in nativeMlx

\* The key hook for keycode 113, one statement of its block at a time.
KeyHookTeardown ==
    /\ ~crashed
    /\ InKeyHook
    /\ running[1].inv.vals[1] = QuitKey
    /\ \E self \in mlxs, window \in windows, image \in images :
         \/ /\ Statement = "destroy_image"
            /\ IF DisplayLive(self) /\ image.img_ptr \in DOMAIN nativeImgs
               THEN crashed' = FALSE ELSE Undefined
            /\ nativeImgs' = [p \in DOMAIN nativeImgs \ {image.img_ptr} |-> nativeImgs[p]]
            /\ images' = drop_ref(images, image)
            /\ last' = Last("destroy_image", <<>>, image.img_ptr, 0, 0, NoNative,
                            Mlx_destroy_image(self, image))
            /\ NextStatement
            /\ UNCHANGED <<mlxs, windows, nativeMlx, nativeWins, looping>>
         \/ /\ Statement = "destroy_window"
            /\ IF DisplayLive(self) /\ window.win_ptr \in nativeWins
               THEN crashed' = FALSE ELSE Undefined
            /\ nativeWins' = nativeWins \ {window.win_ptr}
            /\ windows' = drop_ref(windows, window)
            /\ last' = Last("destroy_window", <<>>, window.win_ptr, 0, 0, NoNative,
                            Mlx_destroy_window(self, window))
            /\ NextStatement
            /\ UNCHANGED <<mlxs, images, nativeMlx, nativeImgs, looping>>
         \/ /\ Statement = "destroy"
            /\ IF DisplayLive(self) THEN crashed' = FALSE ELSE Undefined
            /\ nativeMlx' = nativeMlx \ {self.mlx_ptr}
            /\ last' = Last("destroy", <<>>, self.mlx_ptr, 0, 0, NoNative, Mlx_destroy(self))
            /\ NextStatement
            /\ UNCHANGED <<mlxs, windows, images, nativeWins, nativeImgs, looping>>
         \/ /\ Statement = "exit"
            /\ looping' = Exited
            /\ running' = <<>>
            /\ UNCHANGED <<resourceVars, crashed, last>>
    /\ UNCHANGED <<nWrites, boxes, registry, queue, enq, delivered, fired>>

\* mlx_loop with no event pending calls the loop hook: it computes a colour
\* for every pixel, puts it into the image and draws the image to the window.
LoopHookRun ==
    /\ ~crashed
    /\ looping = MainThread
    /\ running = <<>>
    /\ queue = <<>>
    /\ Len(enq) < MaxDemoEvents
    /\ <<1, "loop", 0>> \in DOMAIN registry
    /\ LET e == Event(Len(enq) + 1, "loop", 1, 0, <<>>)
           ran == Fire(e, call_closure_thread(looping))
       IN  /\ enq' = Append(enq, e)
           /\ delivered' = Append(delivered, [ev |-> e, hooked |-> HasHook(e)])
           /\ fired' = fired \o ran
    /\ \E self \in mlxs, window \in windows, image \in images, color \in ByteVals :
         /\ IF DisplayLive(self) /\ window.win_ptr \in nativeWins /\ Backs(image)
            THEN /\ crashed' = FALSE
                 /\ nativeImgs' =
                      [nativeImgs EXCEPT ![image.area_start].data =
                          [i \in DOMAIN @ |-> u8_as_i8(color)]]
            ELSE /\ Undefined
                 /\ nativeImgs' = nativeImgs
         /\ last' = Last("put_image_to_window", <<>>, image.img_ptr, 0, 0, NoNative,
                         Mlx_put_image_to_window(self, window, image, 0, 0))
    /\ UNCHANGED <<mlxs, windows, images, nativeMlx, nativeWins, nWrites>>
    /\ UNCHANGED <<boxes, registry, queue, looping, running>>

NextDemo ==
    \/ EventLoop
    \/ DemoKeyPress
    \/ DemoHookEnter
    \/ KeyHookIgnore
    \/ KeyHookTeardown
    \/ LoopHookRun

SpecDemo == InitDemo /\ [][NextDemo]_vars

QuitRunning == InKeyHook /\ running[1].inv.vals = <<113>>

\* C13: in the demo, native resources are destroyed only inside the key
\* hook for keycode 113: the image while window and display are live, the
\* window once the image is gone, the display once both are gone and while
\* it is live (so once only); once the display is destroyed the only step
\* left is the exit, with no native call and no callback; the process exits
\* only with everything destroyed; while the key hook runs for another
\* keycode nothing is destroyed and the loop goes on; and nothing is ever
\* accessed after its destruction.
C13_QuitKeyTearsDownInOrder ==
    [][/\ DOMAIN nativeImgs' # DOMAIN nativeImgs =>
             /\ QuitRunning
             /\ nativeMlx = {1} /\ nativeWins = {1}
             /\ DOMAIN nativeImgs = {1} /\ DOMAIN nativeImgs' = {}
       /\ nativeWins' # nativeWins =>
             /\ QuitRunning
             /\ nativeMlx = {1} /\ DOMAIN nativeImgs = {}
             /\ nativeWins = {1} /\ nativeWins' = {}
       /\ nativeMlx' # nativeMlx =>
             /\ QuitRunning
             /\ nativeWins = {} /\ DOMAIN nativeImgs = {}
             /\ nativeMlx = {1} /\ nativeMlx' = {}
             /\ last'.calls[1] = Call("mlx_destroy_display", <<>>, 1, <<>>)
       /\ nativeMlx = {} =>
             /\ looping' = Exited
             /\ running' = <<>>
             /\ last' = last
             /\ fired' = fired
       /\ looping' = Exited =>
             nativeMlx' = {} /\ nativeWins' = {} /\ DOMAIN nativeImgs' = {}
       /\ InKeyHook /\ ~QuitRunning =>
             /\ DOMAIN nativeImgs' = {1} /\ nativeWins' = {1} /\ nativeMlx' = {1}
             /\ looping' = MainThread
       /\ ~crashed']_vars

C13_Witness ==
    /\ looping = Exited
    /\ nativeMlx = {}
    /\ nativeWins = {}
    /\ DOMAIN nativeImgs = {}
    /\ Len(fired) = 2
    /\ fired[1].inv.vals = <<13>>
    /\ fired[2].inv.vals = <<113>>

====
